---- MODULE Spec2Model ----
(***************************************************************************)
(* BlazinVibe API (src/main.py, src/schemas.py): the request handlers of   *)
(* the FastAPI application over a MongoDB document store.                  *)
(*                                                                         *)
(* A document is a function from field names to values.  Python's None is  *)
(* the value None below; an absent key is a key outside DOMAIN.  A Python  *)
(* list is a sequence, a dict a function on strings.  The store's          *)
(* ObjectId is a number that grows with every insert into a collection;    *)
(* str(ObjectId) is ToString of it.                                        *)
(*                                                                         *)
(* database.py (db, create_document, get_documents) is not among the       *)
(* sources: create_document and get_documents follow the adapter contract  *)
(* of the specification (insertOne / findMany).                            *)
(***************************************************************************)
EXTENDS Integers, Sequences, FiniteSets, TLC

\* Bounds of the model: how many visitor submissions a behaviour may hold.
MaxApplications == 2
MaxNewsletters == 2

\* Python's None
None == "<None>"

\* The handle imported from database.py when the store was reachable at startup.
Database == "<Database>"

\* The two requests of the interleaved seeding specification.
Seeders == {"s1", "s2"}

\* schemas.py: the collections, in the order of the closing note
CollectionNames ==
  << "eventinfo", "artist", "experiencezone", "tickettier", "faq",
     "testimonial", "mediaitem", "application", "newsletter" >>

Collections == { CollectionNames[i] : i \in 1..Len(CollectionNames) }

\* ObjectIds are unique across the store: each collection draws from its own range.
IdBase(c) == 100 * (CHOOSE i \in 1..Len(CollectionNames) : CollectionNames[i] = c)

----------------------------------------------------------------------------
(* schemas.py: the closed enumerations and required fields *)

ArtistRoles == {"DJ", "Live Band", "Visual Artist", "Performer"}
ExperiencezoneKinds == {"Live Set", "Installation", "Chill", "VIP"}
TickettierNames == {"Early Bird", "General Admission", "VIP", "Backstage"}
MediaitemKinds == {"photo", "video"}
ApplicationDisciplines == {"DJ", "Live Band", "Visual Artist", "Performer", "Other"}
ApplicationStatuses == {"submitted", "reviewed", "accepted", "rejected"}

\* The Literal-typed fields of each schema class, with their closed sets.
SchemaEnums ==
  [ eventinfo      |-> << >>,
    artist         |-> [role |-> ArtistRoles],
    experiencezone |-> [kind |-> ExperiencezoneKinds],
    tickettier     |-> [name |-> TickettierNames],
    faq            |-> << >>,
    testimonial    |-> << >>,
    mediaitem      |-> [kind |-> MediaitemKinds],
    application    |-> [discipline |-> ApplicationDisciplines,
                        status |-> ApplicationStatuses],
    newsletter     |-> << >> ]

\* The fields declared without a default (Field(...) or a bare annotation).
SchemaRequired ==
  [ eventinfo      |-> {"name", "date_iso", "venue", "address", "city", "country"},
    artist         |-> {"name"},
    experiencezone |-> {"title"},
    tickettier     |-> {"price"},
    faq            |-> {"question", "answer"},
    testimonial    |-> {"author", "quote"},
    mediaitem      |-> {"url"},
    application    |-> {"name", "email"},
    newsletter     |-> {"email"} ]

\* A mapping is valid against the schema class of collection c: every required
\* field is present and every enumerated field that is present holds a member
\* of its closed set (a field left out takes its default).
SchemaValid(c, d) ==
  /\ SchemaRequired[c] \subseteq DOMAIN d
  /\ \A f \in DOMAIN SchemaEnums[c] :
       f \in DOMAIN d => d[f] \in SchemaEnums[c][f]

----------------------------------------------------------------------------
(* main.py: the request models *)

EventInfoInFields ==
  {"name", "tagline", "date_iso", "venue", "address", "city", "country",
   "ticket_url", "socials"}
EventInfoInRequired == {"name", "date_iso", "venue"}

ApplicationInFields ==
  {"name", "discipline", "portfolio", "bio", "instagram", "tiktok", "twitter",
   "email"}
ApplicationInRequired == {"name", "discipline", "email"}

NewsletterInFields == {"email", "name"}
NewsletterInRequired == {"email"}

\* pydantic: a body is accepted when every field without a default is present
\* (fields the model does not declare are ignored).
Accepts(required, body) == required \subseteq DOMAIN body

\* BaseModel.model_dump(): exactly the declared fields, a missing optional
\* one as None; undeclared keys of the body are gone.
model_dump(fields, body) ==
  [f \in fields |-> IF f \in DOMAIN body THEN body[f] ELSE None]

----------------------------------------------------------------------------
(* main.py, seed_demo_content: the literal demonstration content *)

SeedEventinfo ==
  << [ name |-> "BlazinVibe",
       tagline |-> "Feel the Beat. Live the Vibe.",
       date_iso |-> "2025-08-23T18:00:00Z",
       venue |-> "Neon Docks",
       address |-> "Pier 7, Riverfront",
       city |-> "Riverfront City",
       country |-> "USA",
       ticket_url |-> "https://tickets.blazinvibe.io",
       socials |-> [ instagram |-> "https://instagram.com/blazinvibe",
                     twitter |-> "https://twitter.com/blazinvibe" ] ] >>

SeedArtists ==
  << [name |-> "NovaPulse", role |-> "DJ", bio |-> "Bass-heavy cosmic journeys.", headliner |-> TRUE],
     [name |-> "Synesthesia", role |-> "Live Band", bio |-> "Synthwave meets indie electronica."],
     [name |-> "VJ Lumen", role |-> "Visual Artist", bio |-> "Projection mapping wizard."],
     [name |-> "Flux Dancers", role |-> "Performer", bio |-> "Immersive choreographies and LED suits."],
     [name |-> "Echo Drift", role |-> "DJ", bio |-> "Hypnotic house and rolling techno."],
     [name |-> "Orbitals", role |-> "Live Band", bio |-> "Modular synths and drum machines live."],
     [name |-> "PrismArt", role |-> "Visual Artist", bio |-> "Holographic sculptures and lasers."],
     [name |-> "Aerial Flux", role |-> "Performer", bio |-> "Aerial silk performers in neon."],
     [name |-> "Deep Current", role |-> "DJ", bio |-> "Submerged basslines and liquid DnB."] >>

SeedZones ==
  << [title |-> "Main Stage", kind |-> "Live Set", description |-> "Headliner sets with full-spectrum lasers."],
     [title |-> "Neon Garden", kind |-> "Installation", description |-> "Interactive light trails and art."],
     [title |-> "Chill Harbor", kind |-> "Chill", description |-> "Low-tempo grooves and ambient visuals."],
     [title |-> "Creator Playground", kind |-> "Workshop", description |-> "DIY visuals, beat labs, and collab corners."],
     [title |-> "VIP Skydeck", kind |-> "Lounge", description |-> "Panoramic views, exclusive bar, concierge."] >>

SeedTiers ==
  << [name |-> "Early Bird", price |-> 49, currency |-> "USD",
      includes |-> <<"General entry", "Installations">>],
     [name |-> "General Admission", price |-> 79, currency |-> "USD",
      includes |-> <<"All stages", "Installations", "Creator Playground">>],
     [name |-> "VIP", price |-> 149, currency |-> "USD",
      includes |-> <<"VIP lounge", "Priority entry", "Exclusive bar">>],
     [name |-> "Group 4-Pack", price |-> 280, currency |-> "USD",
      includes |-> <<"4x GA passes", "Merch discount">>] >>

SeedFaqs ==
  << [question |-> "What time do doors open?", answer |-> "Doors open at 6:00 PM."],
     [question |-> "Is there re-entry?", answer |-> "Yes, with wristband and valid ID."],
     [question |-> "Is the event all-ages?", answer |-> "18+ with valid ID."],
     [question |-> "Will there be food?", answer |-> "Yes, a variety of street food vendors and vegan options."] >>

SeedMedia ==
  << [kind |-> "photo", url |-> "https://images.unsplash.com/photo-1518972559570-7cc1309f3229", alt |-> "Crowd bathed in neon lights"],
     [kind |-> "photo", url |-> "https://images.unsplash.com/photo-1540575467063-178a50c2df87", alt |-> "DJ on stage with lasers"],
     [kind |-> "photo", url |-> "https://images.unsplash.com/photo-1487180144351-b8472da7d491", alt |-> "Colorful light trails in dark hall"],
     [kind |-> "photo", url |-> "https://images.unsplash.com/photo-1492684223066-81342ee5ff30", alt |-> "Hands up in the air at concert"],
     [kind |-> "photo", url |-> "https://images.unsplash.com/photo-1492684223066-42c7cf8a1f7a", alt |-> "Laser beams over crowd"],
     [kind |-> "video", url |-> "https://storage.googleapis.com/gtv-videos-bucket/sample/BigBuckBunny.mp4", alt |-> "Aftermovie clip sample"] >>

\* The collections the seed visits, in the order of its blocks, and what it
\* inserts into each.
SeedOrder ==
  << "eventinfo", "artist", "experiencezone", "tickettier", "faq", "mediaitem" >>

SeedDocs ==
  [ eventinfo      |-> SeedEventinfo,
    artist         |-> SeedArtists,
    experiencezone |-> SeedZones,
    tickettier     |-> SeedTiers,
    faq            |-> SeedFaqs,
    mediaitem      |-> SeedMedia ]

\* created = {"eventinfo": False, "artist": 0, ...}
CreatedNothing ==
  [ eventinfo |-> FALSE, artist |-> 0, experiencezone |-> 0, tickettier |-> 0,
    faq |-> 0, mediaitem |-> 0 ]

----------------------------------------------------------------------------
VARIABLES
  db,       \* the store handle of database.py: Database, or None when absent
  store,    \* the documents of every collection, in the store's natural order
  resp,     \* the request served last and the response it got
  upserted, \* the body of the last POST /api/eventinfo that was carried out
  seeders   \* the seed requests in flight, when their store calls interleave

vars == << db, store, resp, upserted, seeders >>

----------------------------------------------------------------------------
(* The store: pymongo's collection calls, and database.py's two helpers *)

\* insert_one: the store assigns the next identifier of the collection.
insert_one(st, c, data) ==
  [st EXCEPT ![c] = Append(@, ("_id" :> (IdBase(c) + Len(@) + 1)) @@ data)]

\* database.py, create_document (insertOne of the adapter contract):
\* persists the document under a store-generated identifier.
create_document(st, c, data) == insert_one(st, c, data)

\* The identifier create_document returns: the new document's, as a string.
inserted_id(st, c) == ToString(IdBase(c) + Len(st[c]) + 1)

\* A filter is a mapping from field names to values, matched exactly and
\* conjunctively; a document without the field does not match.
Matches(d, filt) ==
  \A f \in DOMAIN filt : f \in DOMAIN d /\ d[f] = filt[f]

\* database.py, get_documents (findMany of the adapter contract): the
\* matching documents as a list, in insertion order.
get_documents(st, c, filt) == SelectSeq(st[c], LAMBDA d : Matches(d, filt))

\* Collection.count_documents({})
count_documents(st, c) == Len(st[c])

\* Collection.find_one(sort=[("_id", -1)]): the document with the greatest
\* identifier, as a list of one, or the empty list for Python's None.
find_one_latest(st, c) ==
  IF st[c] = << >> THEN << >>
  ELSE LET i == CHOOSE i \in 1..Len(st[c]) :
                  \A j \in 1..Len(st[c]) : st[c][j]._id <= st[c][i]._id
       IN << st[c][i] >>

\* An upsert that inserts although a document matches the filter.
replace_one_as_insert(st, c, data) == insert_one(st, c, data)

\* Collection.replace_one({}, data, upsert=True): the first document in
\* natural order is replaced whole and keeps its identifier; an empty
\* collection gets the document inserted.
replace_one_upsert(st, c, data) ==
  IF st[c] = << >> THEN insert_one(st, c, data)
  ELSE [st EXCEPT ![c][1] = ("_id" :> st[c][1]._id) @@ data]

\* Database.list_collection_names(): a collection exists once it holds a document.
list_collection_names(st) ==
  SelectSeq(CollectionNames, LAMBDA c : st[c] # << >>)

\* lst[:n]
Take(lst, n) == SubSeq(lst, 1, IF Len(lst) < n THEN Len(lst) ELSE n)

----------------------------------------------------------------------------
(* Requests and responses *)

\* A response: the route, what the request carried, the HTTP status, the
\* JSON shape of the body ("list", "object", or "error" for a detail
\* message) and the number of store calls the handler made.
Reply(req, input, status, kind, body, ops) ==
  [ req |-> req, input |-> input, status |-> status, kind |-> kind,
    body |-> body, ops |-> ops ]

EmptyList == << >>
EmptyObject == << >>

\* raise HTTPException(status_code=503, detail="Database not available")
Unavailable(req, input) ==
  Reply(req, input, 503, "error", "Database not available", 0)

\* FastAPI's answer to a body its request model does not accept; the handler
\* is not entered.
Unprocessable(req, input) ==
  Reply(req, input, 422, "error", "validation error", 0)

\* An exception escaping a handler (a call on the absent handle).
ServerError(req, input) ==
  Reply(req, input, 500, "error", "Internal Server Error", 0)

\* d["id"] = str(d["_id"]): the identifier is read, not popped.
Public_keeps_id(d) == ("id" :> ToString(d._id)) @@ d

\* d["id"] = str(d.pop("_id"))
Public(d) ==
  ("id" :> ToString(d._id)) @@ [f \in DOMAIN d \ {"_id"} |-> d[f]]

PublicAll(docs) == [i \in 1..Len(docs) |-> Public(docs[i])]

\* The request bodies and query strings a client sends.
EventInfoBodies ==
  { n @@ v @@ a :
      n \in { [name |-> "BlazinVibe", date_iso |-> "2025-08-23T18:00:00Z"],
              [date_iso |-> "2025-08-23T18:00:00Z"] },
      v \in { << >>, [venue |-> "Neon Docks"], [venue |-> "Sky Hall"] },
      a \in { << >>, [address |-> "1 Sky Road"] } }

ApplicationBodies ==
  { [name |-> "Jane"] @@ d @@ e @@ s :
      d \in { << >>, [discipline |-> "DJ"], [discipline |-> "Juggler"] },
      e \in { << >>, [email |-> "jane@example.com"] },
      s \in { << >>, [status |-> "accepted"] } }

NewsletterBodies ==
  { e @@ s :
      e \in { << >>, [email |-> "jane@example.com"] },
      s \in { << >>, [source |-> "partner"] } }

ArtistQueries ==
  { r @@ h :
      r \in { << >>, [role |-> ""], [role |-> "DJ"], [role |-> "Performer"] },
      h \in { << >>, [headliner |-> TRUE], [headliner |-> FALSE] } }

----------------------------------------------------------------------------
(* main.py: the handlers.  Each handler is one step: it runs on the event  *)
(* loop without awaiting, so no other request of the process is served in  *)
(* between.                                                                *)

\* GET /
root ==
  /\ resp' = Reply("root", << >>, 200, "object",
                   [name |-> "BlazinVibe", status |-> "ok"], 0)
  /\ UNCHANGED << db, store, upserted, seeders >>

\* GET /test: the diagnostic object.  url_set: DATABASE_URL is in the
\* environment; list_raises: list_collection_names() raises.  The icons of
\* the source's strings are left out.
test_database_reply(url_set, list_raises) ==
  LET env == [DATABASE_URL |-> url_set, list_raises |-> list_raises]
      response == [ backend |-> "Running",
                    database |-> "Not Available",
                    database_url |-> "Not Set",
                    database_name |-> "Not Set",
                    connection_status |-> "Not Connected",
                    collections |-> << >> ]
      connected == [ response EXCEPT
                       !.database = "Available",
                       !.database_url = IF url_set THEN "Set" ELSE "Not Set",
                       !.database_name = "db.name",
                       !.connection_status = "Connected" ]
  IN IF db = None
       THEN Reply("test_database", env, 200, "object", response, 0)
     ELSE IF list_raises
       THEN Reply("test_database", env, 200, "object",
                  [connected EXCEPT !.database = "Connected but Error: str(e)[:80]"], 1)
     ELSE Reply("test_database", env, 200, "object",
                [ connected EXCEPT
                    !.collections = Take(list_collection_names(store), 20),
                    !.database = "Connected & Working" ], 1)

test_database ==
  /\ \E url_set \in BOOLEAN, list_raises \in BOOLEAN :
       resp' = test_database_reply(url_set, list_raises)
  /\ UNCHANGED << db, store, upserted, seeders >>

\* GET /api/eventinfo with the handle used without the None check.
get_event_info_unguarded ==
  IF db = None THEN ServerError("get_event_info", << >>)
  ELSE LET doc == find_one_latest(store, "eventinfo")
       IN IF doc = << >>
            THEN Reply("get_event_info", << >>, 200, "object", EmptyObject, 1)
            ELSE Reply("get_event_info", << >>, 200, "object", Public(doc[1]), 1)

\* GET /api/eventinfo
get_event_info_reply ==
  IF db = None
    THEN Reply("get_event_info", << >>, 200, "object", EmptyObject, 0)
  ELSE LET doc == find_one_latest(store, "eventinfo")
       IN IF doc = << >>
            THEN Reply("get_event_info", << >>, 200, "object", EmptyObject, 1)
            ELSE Reply("get_event_info", << >>, 200, "object", Public(doc[1]), 1)

get_event_info ==
  /\ resp' = get_event_info_reply
  /\ UNCHANGED << db, store, upserted, seeders >>

\* POST /api/eventinfo
upsert_event_info ==
  \E body \in EventInfoBodies :
    IF ~Accepts(EventInfoInRequired, body)
      THEN /\ resp' = Unprocessable("upsert_event_info", body)
           /\ UNCHANGED << db, store, upserted, seeders >>
    ELSE IF db = None
      THEN /\ resp' = Unavailable("upsert_event_info", body)
           /\ UNCHANGED << db, store, upserted, seeders >>
    ELSE LET data == model_dump(EventInfoInFields, body)
         IN /\ store' = replace_one_upsert(store, "eventinfo", data)
            /\ resp' = Reply("upsert_event_info", body, 200, "object",
                             [ok |-> TRUE], 1)
            /\ upserted' = << body >>
            /\ UNCHANGED << db, seeders >>

\* list_artists with "if headliner:" in place of "if headliner is not None:"
artists_filter_truthy(query) ==
  (IF "role" \in DOMAIN query /\ query.role # ""
     THEN [role |-> query.role] ELSE << >>)
  @@ (IF "headliner" \in DOMAIN query /\ query.headliner
        THEN [headliner |-> query.headliner] ELSE << >>)

\* list_artists: filt = {}; if role: ...; if headliner is not None: ...
\* (a parameter left out of the query string is None)
artists_filter(query) ==
  (IF "role" \in DOMAIN query /\ query.role # ""
     THEN [role |-> query.role] ELSE << >>)
  @@ (IF "headliner" \in DOMAIN query
        THEN [headliner |-> query.headliner] ELSE << >>)

\* The body shared by the six list handlers.
list_reply(req, input, c, filt) ==
  IF db = None
    THEN Reply(req, input, 200, "list", EmptyList, 0)
    ELSE Reply(req, input, 200, "list",
               PublicAll(get_documents(store, c, filt)), 1)

\* GET /api/artists
list_artists ==
  /\ \E query \in ArtistQueries :
       resp' = list_reply("list_artists", query, "artist", artists_filter(query))
  /\ UNCHANGED << db, store, upserted, seeders >>

\* GET /api/experiences
list_experiences ==
  /\ resp' = list_reply("list_experiences", << >>, "experiencezone", << >>)
  /\ UNCHANGED << db, store, upserted, seeders >>

\* GET /api/tickets
list_tickets ==
  /\ resp' = list_reply("list_tickets", << >>, "tickettier", << >>)
  /\ UNCHANGED << db, store, upserted, seeders >>

\* GET /api/faqs
list_faqs ==
  /\ resp' = list_reply("list_faqs", << >>, "faq", << >>)
  /\ UNCHANGED << db, store, upserted, seeders >>

\* GET /api/testimonials
list_testimonials ==
  /\ resp' = list_reply("list_testimonials", << >>, "testimonial", << >>)
  /\ UNCHANGED << db, store, upserted, seeders >>

\* GET /api/media
list_media ==
  /\ resp' = list_reply("list_media", << >>, "mediaitem", << >>)
  /\ UNCHANGED << db, store, upserted, seeders >>

\* submit_application without data["status"] = "submitted": the document
\* is the body as the client sent it.
application_data_as_sent(body) == body

\* submit_application: data = payload.model_dump(); data["status"] = "submitted"
application_data(body) ==
  ("status" :> "submitted") @@ model_dump(ApplicationInFields, body)

\* POST /api/apply
submit_application ==
  \E body \in ApplicationBodies :
    IF ~Accepts(ApplicationInRequired, body)
      THEN /\ resp' = Unprocessable("submit_application", body)
           /\ UNCHANGED << db, store, upserted, seeders >>
    ELSE IF db = None
      THEN /\ resp' = Unavailable("submit_application", body)
           /\ UNCHANGED << db, store, upserted, seeders >>
    ELSE /\ Len(store["application"]) < MaxApplications
         /\ store' = create_document(store, "application", application_data(body))
         /\ resp' = Reply("submit_application", body, 200, "object",
                          [ ok |-> TRUE,
                            id |-> inserted_id(store, "application"),
                            message |-> "Thanks for applying - we'll get back to you soon." ],
                          1)
         /\ UNCHANGED << db, upserted, seeders >>

\* subscribe_newsletter: the document is payload.model_dump()
newsletter_data(body) == model_dump(NewsletterInFields, body)

\* POST /api/newsletter
subscribe_newsletter ==
  \E body \in NewsletterBodies :
    IF ~Accepts(NewsletterInRequired, body)
      THEN /\ resp' = Unprocessable("subscribe_newsletter", body)
           /\ UNCHANGED << db, store, upserted, seeders >>
    ELSE IF db = None
      THEN /\ resp' = Unavailable("subscribe_newsletter", body)
           /\ UNCHANGED << db, store, upserted, seeders >>
    ELSE /\ Len(store["newsletter"]) < MaxNewsletters
         /\ store' = create_document(store, "newsletter", newsletter_data(body))
         /\ resp' = Reply("subscribe_newsletter", body, 200, "object",
                          [ ok |-> TRUE,
                            id |-> inserted_id(store, "newsletter"),
                            message |-> "Thanks for joining the vibe!" ],
                          1)
         /\ UNCHANGED << db, upserted, seeders >>

----------------------------------------------------------------------------
(* main.py, seed_demo_content.  run is the handler's progress: the store   *)
(* as its calls have left it, its created dict and its count of store      *)
(* calls.                                                                  *)

\* An emptiness check that finds every collection empty.
seed_finds_empty_always(st, c) == TRUE

\* if db[c].count_documents({}) == 0:
seed_finds_empty(st, c) == count_documents(st, c) = 0

\* for a in artists: create_document("artist", a); created["artist"] += 1
RECURSIVE seed_for(_, _, _)
seed_for(run, c, docs) ==
  IF docs = << >> THEN run
  ELSE seed_for([ store   |-> create_document(run.store, c, Head(docs)),
                  created |-> [run.created EXCEPT ![c] = @ + 1],
                  ops     |-> run.ops + 1 ],
                c, Tail(docs))

\* The body of one "if ... == 0:" block: the event info block creates its one
\* document and sets created["eventinfo"] = True, the others loop.
seed_insert(run, c) ==
  IF c = "eventinfo"
    THEN [ store   |-> create_document(run.store, c, SeedDocs[c][1]),
           created |-> [run.created EXCEPT ![c] = TRUE],
           ops     |-> run.ops + 1 ]
    ELSE seed_for(run, c, SeedDocs[c])

\* One block: the count, then the inserts when the count was zero.
seed_block(run, c) ==
  LET counted == [run EXCEPT !.ops = @ + 1]
  IN IF seed_finds_empty(run.store, c) THEN seed_insert(counted, c) ELSE counted

\* The blocks from the i-th on, in the order of the source.
RECURSIVE seed_blocks(_, _)
seed_blocks(run, i) ==
  IF i > Len(SeedOrder) THEN run
  ELSE seed_blocks(seed_block(run, SeedOrder[i]), i + 1)

\* POST /api/seed
seed_demo_content ==
  IF db = None
    THEN /\ resp' = Unavailable("seed_demo_content", << >>)
         /\ UNCHANGED << db, store, upserted, seeders >>
    ELSE LET run == seed_blocks([ store |-> store, created |-> CreatedNothing,
                                  ops |-> 0 ], 1)
         IN /\ store' = run.store
            /\ resp' = Reply("seed_demo_content", << >>, 200, "object",
                             [ok |-> TRUE, created |-> run.created], run.ops)
            /\ UNCHANGED << db, upserted, seeders >>

----------------------------------------------------------------------------
(* The served application, one request at a time *)

NoResponse == Reply("", << >>, 0, "none", << >>, 0)

Idle == [ pc |-> "idle", block |-> 0, created |-> CreatedNothing, status |-> 0 ]

Init ==
  /\ db \in {None, Database}
  /\ store = [c \in Collections |-> << >>]
  /\ resp = NoResponse
  /\ upserted = << >>
  /\ seeders = [p \in Seeders |-> Idle]

Next ==
  \/ root
  \/ test_database
  \/ get_event_info
  \/ upsert_event_info
  \/ list_artists
  \/ list_experiences
  \/ list_tickets
  \/ list_faqs
  \/ list_testimonials
  \/ list_media
  \/ submit_application
  \/ subscribe_newsletter
  \/ seed_demo_content

Spec == Init /\ [][Next]_vars

----------------------------------------------------------------------------
(* Two seed requests served by workers whose store calls interleave.  A    *)
(* step is one emptiness count, or the inserts of one block: every         *)
(* behaviour here is one of the interleavings of the single store calls.   *)

\* The handler is entered: the None check.
SeedBegin(p) ==
  /\ seeders[p].pc = "idle"
  /\ seeders' = [seeders EXCEPT ![p] =
       IF db = None
         THEN [@ EXCEPT !.pc = "done", !.status = 503]
         ELSE [@ EXCEPT !.pc = "count", !.block = 1]]
  /\ UNCHANGED << db, store, resp, upserted >>

\* After a block: the next one, or the return.
SeedAdvance(s) ==
  IF s.block < Len(SeedOrder)
    THEN [s EXCEPT !.pc = "count", !.block = @ + 1]
    ELSE [s EXCEPT !.pc = "done", !.status = 200]

\* if db[c].count_documents({}) == 0:
SeedCount(p) ==
  /\ seeders[p].pc = "count"
  /\ seeders' = [seeders EXCEPT ![p] =
       IF seed_finds_empty(store, SeedOrder[@.block])
         THEN [@ EXCEPT !.pc = "insert"]
         ELSE SeedAdvance(@)]
  /\ UNCHANGED << db, store, resp, upserted >>

\* The inserts of the block whose count was zero.
SeedInsert(p) ==
  /\ seeders[p].pc = "insert"
  /\ LET run == seed_insert([ store |-> store, created |-> seeders[p].created,
                              ops |-> 0 ], SeedOrder[seeders[p].block])
     IN /\ store' = run.store
        /\ seeders' = [seeders EXCEPT ![p] =
             SeedAdvance([@ EXCEPT !.created = run.created])]
  /\ UNCHANGED << db, resp, upserted >>

NextSeeders ==
  \/ \E p \in Seeders : SeedBegin(p)
  \/ \E p \in Seeders : SeedCount(p)
  \/ \E p \in Seeders : SeedInsert(p)

SpecSeeders == Init /\ [][NextSeeders]_vars

----------------------------------------------------------------------------
(* Properties *)

SeededCollections == { SeedOrder[i] : i \in 1..Len(SeedOrder) }

\* A document as stored, without the store's identifier.
Content(d) == [f \in DOMAIN d \ {"_id"} |-> d[f]]

SeedIdempotent ==
  [][ ( /\ resp.req = "seed_demo_content"
        /\ resp.status = 200
        /\ resp'.req = "seed_demo_content" )
      => /\ resp'.status = 200
         /\ resp'.body.created = CreatedNothing
         /\ \A c \in SeededCollections : Len(store'[c]) = Len(store[c]) ]_vars

\* The response of a seed that found every collection populated.
SeedIdempotentWitness ==
  /\ resp.req = "seed_demo_content"
  /\ resp.status = 200
  /\ resp.body.created = CreatedNothing
  /\ \A c \in SeededCollections : Len(store[c]) = Len(SeedDocs[c])

ContentReads ==
  { "get_event_info", "list_artists", "list_experiences", "list_tickets",
    "list_faqs", "list_testimonials", "list_media" }

Reads == ContentReads \cup {"root", "test_database"}

Writes ==
  { "upsert_event_info", "submit_application", "subscribe_newsletter",
    "seed_demo_content" }

\* What the request model of a write route requires of its body.
RouteRequired ==
  [ upsert_event_info    |-> EventInfoInRequired,
    submit_application   |-> ApplicationInRequired,
    subscribe_newsletter |-> NewsletterInRequired,
    seed_demo_content    |-> {} ]

\* C3 as stated. Degradation law: with the handle absent every read endpoint
\* returns [] or {}, every write endpoint returns 503, no request crashes
\* the server and no store call is made.
DegradationLawAsStated ==
  db = None =>
    /\ resp.req \in Reads =>
         resp.status = 200 /\ resp.kind \in {"list", "object"}
                           /\ DOMAIN resp.body = {}
    /\ resp.req \in Writes => resp.status = 503
    /\ resp.status # 500
    /\ resp.ops = 0

\* C3, amended. With the handle absent: every content read endpoint
\* (GET /api/eventinfo and the six lists) returns {} or []; GET / returns its
\* static payload and GET /test the diagnostic object reporting the database
\* as not available with no collections; every write endpoint returns 503
\* for a body its request model accepts, and the validation error for one it
\* does not; no request crashes the server, no store call is made and the
\* store is untouched.
DegradationLaw ==
  db = None =>
    /\ resp.req \in ContentReads =>
         resp.status = 200 /\ resp.kind \in {"list", "object"}
                           /\ DOMAIN resp.body = {}
    /\ resp.req = "root" =>
         resp.status = 200 /\ resp.body = [name |-> "BlazinVibe", status |-> "ok"]
    /\ resp.req = "test_database" =>
         /\ resp.status = 200
         /\ resp.body.database = "Not Available"
         /\ resp.body.connection_status = "Not Connected"
         /\ resp.body.collections = << >>
    /\ resp.req \in Writes =>
         resp.status = IF Accepts(RouteRequired[resp.req], resp.input)
                         THEN 503 ELSE 422
    /\ resp.status # 500
    /\ resp.ops = 0
    /\ \A c \in Collections : store[c] = << >>

\* A complete application refused because the store is absent.
DegradationLawWitness ==
  /\ db = None
  /\ resp.req = "submit_application"
  /\ resp.status = 503
  /\ Accepts(ApplicationInRequired, resp.input)

\* The schema class a write route's body is a document of.
RouteSchema ==
  [ upsert_event_info    |-> "eventinfo",
    submit_application   |-> "application",
    subscribe_newsletter |-> "newsletter" ]

\* C4. Validation law: a write whose body misses a field its schema requires,
\* or gives an enumerated field a value outside its closed set, is answered
\* with the validation error (and so inserts nothing).
ValidationLaw ==
  ( /\ db # None
    /\ resp.req \in DOMAIN RouteSchema
    /\ ~SchemaValid(RouteSchema[resp.req], resp.input) )
  => resp.status = 422

\* C5. Every application document in the store has status "submitted",
\* whatever the body of the POST /api/apply that created it carried.
ApplicationsSubmitted ==
  \A i \in 1..Len(store["application"]) :
    /\ "status" \in DOMAIN store["application"][i]
    /\ store["application"][i].status = "submitted"

\* An application whose body asked for another status was stored.
ApplicationsSubmittedWitness ==
  /\ resp.req = "submit_application"
  /\ resp.status = 200
  /\ "status" \in DOMAIN resp.input
  /\ resp.input.status = "accepted"
  /\ store["application"] # << >>

\* The documents of the artist collection that equal, field by field, what
\* the filter supplies.
ArtistsEqualTo(supplied) ==
  SelectSeq(store["artist"],
            LAMBDA d : \A f \in DOMAIN supplied :
                          f \in DOMAIN d /\ d[f] = supplied[f])

\* C6 as stated. GET /api/artists returns exactly the artists whose role
\* and headliner equal the supplied values, for every supplied value,
\* headliner=false and the empty role included.
ArtistFilterAsStated ==
  (db # None /\ resp.req = "list_artists") =>
    /\ resp.status = 200
    /\ Len(resp.body) = Len(ArtistsEqualTo(resp.input))
    /\ \A i \in 1..Len(resp.body) :
         Content(ArtistsEqualTo(resp.input)[i]) =
           [f \in DOMAIN resp.body[i] \ {"id"} |-> resp.body[i][f]]

\* The query without an empty role.
NonEmptySupplied(query) ==
  [f \in {g \in DOMAIN query : ~(g = "role" /\ query[g] = "")} |-> query[f]]

\* C6, amended. GET /api/artists returns exactly the artists whose role and
\* headliner equal the supplied values, for every headliner value (false
\* included) and every non-empty role; an empty role is no filter, like a
\* role left out; with nothing supplied the whole collection is returned.
ArtistFilter ==
  (db # None /\ resp.req = "list_artists") =>
    /\ resp.status = 200
    /\ Len(resp.body) = Len(ArtistsEqualTo(NonEmptySupplied(resp.input)))
    /\ \A i \in 1..Len(resp.body) :
         Content(ArtistsEqualTo(NonEmptySupplied(resp.input))[i]) =
           [f \in DOMAIN resp.body[i] \ {"id"} |-> resp.body[i][f]]

\* The seeded lineup asked for its headliners, with an empty role.
ArtistFilterWitness ==
  /\ db # None
  /\ resp.req = "list_artists"
  /\ resp.input = [role |-> "", headliner |-> TRUE]
  /\ Len(resp.body) = 1
  /\ resp.body[1].name = "NovaPulse"

\* The collection a list route reads.
RouteCollection ==
  [ list_artists      |-> "artist",
    list_experiences  |-> "experiencezone",
    list_tickets      |-> "tickettier",
    list_faqs         |-> "faq",
    list_testimonials |-> "testimonial",
    list_media        |-> "mediaitem" ]

\* d is the public form of the stored document s.
IsPublicOf(d, s) ==
  /\ "id" \in DOMAIN d
  /\ d.id \in STRING
  /\ d.id = ToString(s._id)
  /\ "_id" \notin DOMAIN d
  /\ [f \in DOMAIN d \ {"id"} |-> d[f]] = Content(s)

\* C7. A list endpoint called without a filter returns every document of
\* its collection, in insertion order (the order of growing identifiers),
\* each with a string id from the store's identifier and without _id; a
\* non-empty GET /api/eventinfo result has the same shape.
ListShape ==
  /\ ( db # None /\ resp.req \in DOMAIN RouteCollection /\ resp.input = << >> ) =>
       LET docs == store[RouteCollection[resp.req]]
       IN /\ resp.kind = "list"
          /\ Len(resp.body) = Len(docs)
          /\ \A i \in 1..Len(docs) : IsPublicOf(resp.body[i], docs[i])
          /\ \A i, j \in 1..Len(docs) : i < j => docs[i]._id < docs[j]._id
  /\ ( resp.req = "get_event_info" /\ resp.kind = "object"
                                   /\ DOMAIN resp.body # {} ) =>
       \E i \in 1..Len(store["eventinfo"]) :
         IsPublicOf(resp.body, store["eventinfo"][i])

\* The four seeded ticket tiers, listed in the order of their insertion.
ListShapeWitness ==
  /\ resp.req = "list_tickets"
  /\ Len(resp.body) = 4
  /\ resp.body[1].name = "Early Bird"
  /\ resp.body[4].name = "Group 4-Pack"

\* C8. Every newsletter document carries a source field, "website" when the
\* body of the POST /api/newsletter did not give one.
NewsletterSource ==
  \A i \in 1..Len(store["newsletter"]) :
    "source" \in DOMAIN store["newsletter"][i]

\* C9. Every document the seed inserts is valid against the schema of its
\* collection: kinds and tier names are within their closed sets.
SeededSchemaValid ==
  \A c \in SeededCollections :
    \A i \in 1..Len(store[c]) :
      (c = "eventinfo" => upserted = << >>) =>
        SchemaValid(c, Content(store[c][i]))

\* C10. Two seed requests whose store calls interleave: no collection is
\* populated twice, and when both have returned every seeded collection
\* holds the documents of one seed.
SeedersPopulateOnce ==
  /\ \A c \in SeededCollections : Len(store[c]) <= Len(SeedDocs[c])
  /\ (\A p \in Seeders : seeders[p].pc = "done" /\ seeders[p].status = 200) =>
       \A c \in SeededCollections : Len(store[c]) = Len(SeedDocs[c])

====
